---- MODULE Spec2Model ----
(***************************************************************************)
(* Model of src/atomic.cpp: the __atomic_load_N / __atomic_store_N /       *)
(* __atomic_exchange_N entry points of the armv6m atomics polyfill, the    *)
(* critical_section guard they use and the PRIMASK interrupt flag.         *)
(*                                                                         *)
(* One core runs a stack of activations: the thread-level call at the      *)
(* bottom, calls made from inside a critical_section action, and interrupt *)
(* handlers that preempt whatever runs whenever PRIMASK is clear.  Only    *)
(* the top activation executes; every instruction of the source that reads *)
(* or writes shared state (PRIMASK, the target location) is one step.      *)
(***************************************************************************)
EXTENDS Naturals, Sequences, FiniteSets

VARIABLES
    primask,   \* the PRIMASK bit: TRUE = interrupts masked (disabled)
    mem,       \* the target location, as two 4-byte words <<low, high>>
    width,     \* the width in bytes of the target location: 1, 2, 4 or 8
    stack      \* the activations in progress, the running one last

vars == <<primask, mem, width, stack>>

\* ---------------------------------------------------------------- bounds
MaxVal == 1     \* values stored are 0..MaxVal
MaxIrq == 1     \* interrupt handlers nested on top of the thread
MaxNest == 1    \* critical_section calls whose action makes a further call

Values == 0..MaxVal
Widths == {1, 2, 4, 8}
Orders == {"relaxed", "consume", "acquire", "release", "acq_rel", "seq_cst"}
Prims == {"load", "store", "exchange"}

\* An 8-byte value is held as two 4-byte words.  The values stored are those
\* whose two words are equal, so that a torn value is one with unequal words.
Word64(v) == <<v, v>>

\* ------------------------------------------------- ordering-to-barrier
\* A store whose leading barrier depends on the width as well
StoreBarrierBefore_WideOnly(order) == order # "relaxed" /\ width = 8

\* atomic_store: if (order != relaxed) memory_barrier();
StoreBarrierBefore(order) == order # "relaxed"

\* A store that takes the load's cases for its trailing barrier
StoreBarrierAfter_AsLoad(order) == order \in {"seq_cst", "acq_rel", "release"}

\* atomic_store: switch (order) { case seq_cst: case acq_rel: case acquire: }
StoreBarrierAfter(order) == order \in {"seq_cst", "acq_rel", "acquire"}

\* A load that takes the store's cases for its leading barrier
LoadBarrierBefore_AsStore(order) == order \in {"seq_cst", "acq_rel", "acquire"}

\* A load whose switch misses the seq_cst case
LoadBarrierBefore_NoSeqCst(order) == order \in {"acq_rel", "release"}

\* atomic_load: switch (order) { case seq_cst: case acq_rel: case release: }
LoadBarrierBefore(order) == order \in {"seq_cst", "acq_rel", "release"}

\* A load that issues its trailing barrier whatever the ordering
LoadBarrierAfter_Always(order) == TRUE

\* atomic_load: if (order != relaxed) memory_barrier();
LoadBarrierAfter(order) == order # "relaxed"

\* atomic_exchange: if (order != relaxed) memory_barrier(); before the read
ExchangeBarrierBefore(order) == order # "relaxed"

\* An exchange that takes the store's cases for its trailing barrier
ExchangeBarrierAfter_AsStore(order) == order \in {"seq_cst", "acq_rel", "acquire"}

\* atomic_exchange: if (order != relaxed) memory_barrier(); after the write
ExchangeBarrierAfter(order) == order # "relaxed"

BarrierBefore(prim, order) ==
    CASE prim = "store" -> StoreBarrierBefore(order)
      [] prim = "load" -> LoadBarrierBefore(order)
      [] prim = "exchange" -> ExchangeBarrierBefore(order)
      [] OTHER -> FALSE

BarrierAfter(prim, order) ==
    CASE prim = "store" -> StoreBarrierAfter(order)
      [] prim = "load" -> LoadBarrierAfter(order)
      [] prim = "exchange" -> ExchangeBarrierAfter(order)
      [] OTHER -> FALSE

\* ------------------------------------------------------- the guard
\* Entry points that guard the exchanges only
Guarded_OnlyExchange(prim, w) == prim = "exchange" \/ prim = "nest"

\* Entry points that guard the 8-byte accesses only
Guarded_OnlyWide(prim, w) == prim = "nest" \/ w = 8

\* Entry points that guard every access
Guarded_All(prim, w) == TRUE

\* Which entry points run their access inside critical_section:
\* __atomic_store_8, __atomic_load_8 and atomic_exchange of every width.
\* "nest" is critical_section called with an action that calls an entry point.
Guarded(prim, w) == prim = "exchange" \/ prim = "nest" \/ w = 8

\* get_interrupt_mask: mrs primask; return primask != 0
get_interrupt_mask(pm) == pm

\* A guard that takes interrupts to be enabled without asking
previously_enabled_Assumed(pm) == TRUE

\* A guard that takes a set mask to mean enabled
previously_enabled_Inverted(pm) == get_interrupt_mask(pm) = TRUE

\* const auto previously_enabled = get_interrupt_mask() == 0;
previously_enabled(pm) == get_interrupt_mask(pm) = FALSE

\* A guard whose entry leaves PRIMASK alone
EnterMask_NoDisable(prev, pm) == pm

\* if (previously_enabled) { cpsid i }: PRIMASK after the entry of the guard
EnterMask(prev, pm) == IF prev THEN TRUE ELSE pm

\* A guard whose exit leaves PRIMASK alone
ExitMask_NoEnable(prev, pm) == pm

\* A guard whose exit enables interrupts unconditionally
ExitMask_Always(prev, pm) == FALSE

\* if (previously_enabled) { cpsie i }: PRIMASK after the exit of the guard
ExitMask(prev, pm) == IF prev THEN FALSE ELSE pm

\* ------------------------------------------------------- activations
Top == stack[Len(stack)]
Running == stack # <<>> /\ Top.pc # "done"
SetTop(f) == [stack EXCEPT ![Len(stack)] = f]
Pop == SubSeq(stack, 1, Len(stack) - 1)

NumIrq == Cardinality({i \in 1..Len(stack) : stack[i].kind = "irq"})
NumNest == Cardinality({i \in 1..Len(stack) : stack[i].prim = "nest"})

\* Where an activation goes once its guard is entered (or at once, unguarded)
BodyPc(prim, order) ==
    IF prim = "nest" THEN "action"
    ELSE IF BarrierBefore(prim, order) THEN "dmb1"
    ELSE IF prim = "store" THEN "wr" ELSE "rd"

\* Where an activation starts: a guarded one at the mask query
EntryPc(prim, order, w) ==
    IF Guarded(prim, w) THEN "mrs" ELSE BodyPc(prim, order)

\* Where an activation goes when its body is over
ExitPc(prim, w) == IF Guarded(prim, w) THEN "cpsie" ELSE "ret"

\* Where an activation goes after its last memory access
AfterAccessPc(prim, order, w) ==
    IF BarrierAfter(prim, order) THEN "dmb2" ELSE ExitPc(prim, w)

\* A read that returns the other word of the location
LoadWord_Stale(m) == m[2]

\* T value = *ptr; prev_val = atomic: the word read from the location (the
\* whole value for widths 1, 2 and 4)
LoadWord(m) == m[1]

\* A write that leaves the location as it was
StoreWord_Dropped(val, m) == m

\* *ptr = value; atomic = value: the location after the write of the word
StoreWord(val, m) == <<val, m[2]>>

\* The value as the location holds it: one word, or two for an 8-byte value
Stored(v) == IF width = 8 THEN Word64(v) ELSE <<v, 0>>

\* A new activation.  entry, cps, hit, over, tr, before, irqat and pred record
\* what happened, for the properties; the code reads none of them.
Frame(kind, prim, order, val) ==
    [kind |-> kind, prim |-> prim, order |-> order, val |-> val,
     pc |-> EntryPc(prim, order, width),
     prev |-> FALSE,         \* previously_enabled
     ret |-> <<0, 0>>,       \* the value read (prev_val / value)
     entry |-> primask,      \* PRIMASK when the call was made
     cps |-> 0,              \* cpsid / cpsie instructions executed
     hit |-> FALSE,          \* another activation accessed the location
                             \* between this one's first and last access
     over |-> <<0, 0>>,      \* what the exchange's write overwrote
     tr |-> <<>>,            \* barriers and accesses issued, in order
     before |-> IF prim = "exchange" THEN mem ELSE <<0, 0>>,
                             \* what the location held when exchange was
                             \* called, while no interrupt has intervened
     irqat |-> "none",       \* whether the activation was preempted: "gap"
                             \* between its mask query and its cpsid,
                             \* "other" elsewhere only
     pred |-> <<"none", 0>>] \* the store or exchange that a load follows

\* The calls an activation can be: a load, or a store / exchange of a value
Ops == {<<"load", o, 0>> : o \in Orders}
       \cup {<<p, o, v>> : p \in {"store", "exchange"}, o \in Orders, v \in Values}

\* The calls an interrupt handler makes: the same entry points, with the
\* weakest and the strongest ordering
IrqOrders == {"relaxed", "seq_cst"}
IrqOps == {op \in Ops : op[2] \in IrqOrders}

\* An activation is between its first and its last access to the location
InWindow(f) == f.pc \in {"rd2", "wr2"} \/ (f.prim = "exchange" /\ f.pc = "wr")

\* The activations below the top one, marked when the top one accesses memory
MarkHit(s) ==
    [i \in 1..Len(s) |->
        IF i < Len(s) /\ InWindow(s[i]) THEN [s[i] EXCEPT !.hit = TRUE] ELSE s[i]]

\* The activations in progress, marked when an interrupt preempts them
MarkIrq(s) ==
    [i \in 1..Len(s) |->
        [s[i] EXCEPT !.irqat = IF s[i].pc = "cpsid" \/ @ = "gap" THEN "gap"
                               ELSE "other",
                     !.before = <<0, 0>>,
                     !.pred = <<"none", 0>>]]

\* What a thread's load follows immediately: the store or exchange the thread
\* has just completed without being preempted, if any
Pred(prim) ==
    IF /\ prim = "load" /\ stack # <<>>
       /\ Top.prim \in {"store", "exchange"} /\ Top.irqat = "none"
    THEN <<Top.prim, Top.val>>
    ELSE <<"none", 0>>

\* Where an interrupt can be taken with an effect of its own: between two
\* instructions of the running activation.  Taken before a handler's first
\* instruction it is the late-arriving interrupt that the core serves first,
\* and taken before a return it is the same as taken after it.
Preemptible(f) ==
    /\ f.pc # "ret"
    /\ f.kind = "irq" => f.pc # EntryPc(f.prim, f.order, width)

\* ------------------------------------------------------------- Init
Init ==
    /\ primask \in BOOLEAN
    /\ width \in Widths
    /\ \E v \in Values : mem = IF width = 8 THEN Word64(v) ELSE <<v, 0>>
    /\ stack = <<>>

\* ---------------------------------------------------------- actions
\* Thread-level code calls an entry point, or critical_section with an
\* action that calls one, when no call of its own is in progress.
Call ==
    /\ stack = <<>> \/ (Len(stack) = 1 /\ Top.pc = "done")
    /\ \/ \E op \in Ops :
             stack' = <<[Frame("thread", op[1], op[2], op[3])
                           EXCEPT !.pred = Pred(op[1])]>>
       \/ /\ MaxNest > 0
          /\ stack' = <<Frame("thread", "nest", "relaxed", 0)>>
    /\ UNCHANGED <<primask, mem, width>>

\* An interrupt is taken: possible only while PRIMASK is clear.  Its handler
\* calls one entry point on the same location.
Interrupt ==
    /\ Running
    /\ primask = FALSE
    /\ Preemptible(Top)
    /\ NumIrq < MaxIrq
    /\ \E op \in IrqOps :
          stack' = Append(MarkIrq(stack), Frame("irq", op[1], op[2], op[3]))
    /\ UNCHANGED <<primask, mem, width>>

\* critical_section: const auto previously_enabled = get_interrupt_mask() == 0;
Mrs ==
    /\ Running
    /\ Top.pc = "mrs"
    /\ stack' = SetTop([Top EXCEPT !.prev = previously_enabled(primask),
                                   !.pc = "cpsid"])
    /\ UNCHANGED <<primask, mem, width>>

\* critical_section: if (previously_enabled) { asm volatile("cpsid i"); }
Cpsid ==
    /\ Running
    /\ Top.pc = "cpsid"
    /\ primask' = EnterMask(Top.prev, primask)
    /\ stack' = SetTop([Top EXCEPT !.pc = BodyPc(Top.prim, Top.order),
                                   !.cps = IF Top.prev THEN @ + 1 ELSE @])
    /\ UNCHANGED <<mem, width>>

\* memory_barrier() before the access
DmbBefore ==
    /\ Running
    /\ Top.pc = "dmb1"
    /\ stack' = SetTop([Top EXCEPT !.pc = IF Top.prim = "store" THEN "wr" ELSE "rd",
                                   !.tr = Append(@, "dmb")])
    /\ UNCHANGED <<primask, mem, width>>

\* T value = *ptr (atomic_load), const auto prev_val = atomic (atomic_exchange):
\* the whole value for widths 1, 2 and 4, the low word of an 8-byte value
Read ==
    /\ Running
    /\ Top.pc = "rd"
    /\ LET f == [Top EXCEPT
                   !.ret = <<LoadWord(mem), 0>>,
                   !.tr = Append(@, "rd"),
                   !.pc = IF width = 8 THEN "rd2"
                          ELSE IF Top.prim = "exchange" THEN "wr"
                          ELSE AfterAccessPc(Top.prim, Top.order, width)]
       IN stack' = MarkHit(SetTop(f))
    /\ UNCHANGED <<primask, mem, width>>

\* the high word of an 8-byte read
ReadHigh ==
    /\ Running
    /\ Top.pc = "rd2"
    /\ LET f == [Top EXCEPT
                   !.ret = <<@[1], mem[2]>>,
                   !.pc = IF Top.prim = "exchange" THEN "wr"
                          ELSE AfterAccessPc(Top.prim, Top.order, width)]
       IN stack' = MarkHit(SetTop(f))
    /\ UNCHANGED <<primask, mem, width>>

\* *ptr = value (atomic_store), atomic = value (atomic_exchange):
\* the whole value for widths 1, 2 and 4, the low word of an 8-byte value
Write ==
    /\ Running
    /\ Top.pc = "wr"
    /\ mem' = StoreWord(Top.val, mem)
    /\ LET f == [Top EXCEPT
                   !.over = <<mem[1], 0>>,
                   !.tr = Append(@, "wr"),
                   !.pc = IF width = 8 THEN "wr2"
                          ELSE AfterAccessPc(Top.prim, Top.order, width)]
       IN stack' = MarkHit(SetTop(f))
    /\ UNCHANGED <<primask, width>>

\* the high word of an 8-byte write
WriteHigh ==
    /\ Running
    /\ Top.pc = "wr2"
    /\ mem' = <<mem[1], Word64(Top.val)[2]>>
    /\ LET f == [Top EXCEPT
                   !.over = <<@[1], mem[2]>>,
                   !.pc = AfterAccessPc(Top.prim, Top.order, width)]
       IN stack' = MarkHit(SetTop(f))
    /\ UNCHANGED <<primask, width>>

\* memory_barrier() after the access
DmbAfter ==
    /\ Running
    /\ Top.pc = "dmb2"
    /\ stack' = SetTop([Top EXCEPT !.pc = ExitPc(Top.prim, width),
                                   !.tr = Append(@, "dmb")])
    /\ UNCHANGED <<primask, mem, width>>

\* critical_section: action(), for an action that calls an entry point or
\* critical_section again
Invoke ==
    /\ Running
    /\ Top.pc = "action"
    /\ LET s == SetTop([Top EXCEPT !.pc = "inaction"])
       IN \/ \E op \in Ops :
                stack' = Append(s, Frame("nested", op[1], op[2], op[3]))
          \/ /\ NumNest < MaxNest
             /\ stack' = Append(s, Frame("nested", "nest", "relaxed", 0))
    /\ UNCHANGED <<primask, mem, width>>

\* critical_section: if (previously_enabled) { asm volatile("cpsie i"); }
Cpsie ==
    /\ Running
    /\ Top.pc = "cpsie"
    /\ primask' = ExitMask(Top.prev, primask)
    /\ stack' = SetTop([Top EXCEPT !.pc = "ret",
                                   !.cps = IF Top.prev THEN @ + 1 ELSE @])
    /\ UNCHANGED <<mem, width>>

\* The running activation returns: a handler to what it preempted, a call
\* made by an action to the critical_section that invoked it, the thread's
\* call to the thread.
Return ==
    /\ Running
    /\ Top.pc = "ret"
    /\ \/ /\ Top.kind = "irq"
          /\ stack' = Pop
       \/ /\ Top.kind = "nested"
          /\ stack' = [Pop EXCEPT ![Len(stack) - 1].pc = ExitPc("nest", width)]
       \/ /\ Top.kind = "thread"
          /\ stack' = SetTop([Top EXCEPT !.pc = "done"])
    /\ UNCHANGED <<primask, mem, width>>

Next ==
    \/ Call
    \/ Interrupt
    \/ Mrs
    \/ Cpsid
    \/ DmbBefore
    \/ Read
    \/ ReadHigh
    \/ Write
    \/ WriteHigh
    \/ DmbAfter
    \/ Invoke
    \/ Cpsie
    \/ Return

Spec == Init /\ [][Next]_vars

\* ------------------------------------------------------ properties
Frames == {stack[i] : i \in 1..Len(stack)}

\* The calls the guard is said to wrap: critical_section itself, every
\* exchange, and the 8-byte load and store
GuardWrapped(f) ==
    \/ f.prim \in {"exchange", "nest"}
    \/ (f.prim \in {"load", "store"} /\ width = 8)

\* The activation has returned, or is about to execute its return
Returning(f) == f.pc \in {"ret", "done"}

\* The activation has issued everything its body issues
BodyOver(f) == f.pc \in {"cpsie", "ret", "done"}

Opt(b, e) == IF b THEN <<e>> ELSE <<>>

\* C1: when a guarded call returns, the interrupt flag has the value it had
\* immediately before the call, for both values of the flag and at every
\* nesting depth.
C1_FlagRestored ==
    stack # <<>> /\ GuardWrapped(Top) /\ Returning(Top) => primask = Top.entry

\* C1 witness: a guarded exchange called from inside a critical_section that
\* was entered with interrupts enabled is about to return, interrupts masked.
C1_Witness ==
    /\ Len(stack) >= 2
    /\ stack[1].prim = "nest" /\ stack[1].entry = FALSE /\ stack[1].cps = 1
    /\ Top.kind = "nested" /\ Top.prim = "exchange" /\ Top.pc = "ret"
    /\ Top.entry = TRUE /\ primask = TRUE

\* C2: a guard entered with interrupts disabled executes neither cpsid nor
\* cpsie, and the flag stays disabled at every step from entry to return and
\* after the return.
C2_DisabledStaysDisabled ==
    \A f \in Frames :
        GuardWrapped(f) /\ f.entry = TRUE => primask = TRUE /\ f.cps = 0

\* C2 witness: an exchange entered with interrupts disabled has returned.
C2_Witness ==
    /\ Len(stack) = 1 /\ Top.prim = "exchange" /\ Top.pc = "done"
    /\ Top.entry = TRUE /\ Top.cps = 0 /\ primask = TRUE
    /\ Top.tr = <<"dmb", "rd", "wr", "dmb">>

\* C3: for nested guards started with interrupts enabled, interrupts are
\* enabled when the outermost guard returns, and they are masked in every
\* state between a guard's own disable and its own re-enable: no inner guard
\* re-enables them early.
C3_NestedGuards ==
    /\ \A f \in Frames : f.cps = 1 => primask = TRUE
    /\ stack # <<>> /\ Top.kind # "nested" /\ GuardWrapped(Top)
         /\ Top.entry = FALSE /\ Returning(Top) => primask = FALSE

\* C3 witness: an inner guard has run its exit while the outermost guard,
\* which disabled interrupts, has not re-enabled them yet.
C3_Witness ==
    /\ Len(stack) >= 2
    /\ stack[1].prim = "nest" /\ stack[1].prev = TRUE /\ stack[1].cps = 1
    /\ Top.kind = "nested" /\ GuardWrapped(Top) /\ Top.pc = "ret"
    /\ Top.prim = "load" /\ primask = TRUE

\* C4: an exchange of any width is indivisible with respect to handlers: no
\* other activation accesses the location between its read and its write,
\* and the value it returns is the value its write overwrote.
C4_ExchangeIndivisible ==
    \A f \in Frames :
        f.prim = "exchange" =>
            /\ ~f.hit
            /\ f.pc = "wr2" => f.ret[1] = f.over[1]
            /\ f.pc \in {"dmb2", "cpsie", "ret", "done"} => f.ret = f.over

\* C4 witness: an exchange entered with interrupts enabled has returned the
\* value it overwrote, which differs from the value it wrote.
C4_Witness ==
    /\ Len(stack) = 1 /\ Top.prim = "exchange" /\ Top.pc = "done"
    /\ Top.entry = FALSE /\ Top.cps = 2
    /\ Top.ret = Top.over /\ Top.ret[1] # Top.val

\* C5: an 8-byte load or store is never torn: no other activation accesses
\* the location between its two halves, an 8-byte load returns two halves of
\* one stored value, and once an 8-byte store has written its second half
\* both halves in memory are its own.
C5_NoTearing ==
    \A f \in Frames :
        width = 8 /\ f.prim \in {"load", "store"} =>
            /\ ~f.hit
            /\ f.prim = "load" /\ f.pc \in {"dmb2", "cpsie", "ret", "done"}
                  => f.ret[1] = f.ret[2]
            /\ f.prim = "store" /\ f.pc \in {"dmb2", "cpsie", "ret"}
                  => mem = Word64(f.val)

\* C5 witness: a handler's 8-byte load has read both halves of a value that
\* is not the one the preempted 8-byte store is about to write.
C5_Witness ==
    /\ width = 8 /\ Len(stack) = 2
    /\ stack[1].prim = "store" /\ stack[1].pc = "cpsid"
    /\ Top.kind = "irq" /\ Top.prim = "load" /\ Top.pc = "cpsie"
    /\ Top.ret = Word64(1) /\ stack[1].val = 0

\* C6: a store issues a barrier before the write iff the ordering is not
\* relaxed, and after the write iff it is acquire, acq_rel or seq_cst, at
\* every width.
C6_StoreBarriers ==
    \A f \in Frames :
        f.prim = "store" =>
            /\ f.pc = "dmb1" => f.order # "relaxed"
            /\ f.pc = "dmb2" => f.order \in {"acquire", "acq_rel", "seq_cst"}
            /\ BodyOver(f) =>
                 f.tr = Opt(f.order # "relaxed", "dmb") \o <<"wr">>
                        \o Opt(f.order \in {"acquire", "acq_rel", "seq_cst"}, "dmb")

\* C6 witness: a consume store has issued a leading barrier and no trailing one.
C6_Witness ==
    \E f \in Frames :
        /\ f.prim = "store" /\ f.order = "consume" /\ f.pc = "done"
        /\ f.tr = <<"dmb", "wr">>

\* C7: a load issues a barrier before the read iff the ordering is seq_cst,
\* acq_rel or release, and after the read iff it is not relaxed, at every
\* width.
C7_LoadBarriers ==
    \A f \in Frames :
        f.prim = "load" =>
            /\ f.pc = "dmb1" => f.order \in {"seq_cst", "acq_rel", "release"}
            /\ f.pc = "dmb2" => f.order # "relaxed"
            /\ BodyOver(f) =>
                 f.tr = Opt(f.order \in {"seq_cst", "acq_rel", "release"}, "dmb")
                        \o <<"rd">> \o Opt(f.order # "relaxed", "dmb")

\* C7 witness: an acquire load has issued a trailing barrier and no leading one.
C7_Witness ==
    \E f \in Frames :
        /\ f.prim = "load" /\ f.order = "acquire" /\ f.pc = "done"
        /\ f.tr = <<"rd", "dmb">>

\* C8 as stated: an exchange issues a barrier before the read exactly when a
\* load with the same ordering issues its leading barrier, and after the
\* write exactly when a store with the same ordering issues its trailing one.
C8_AsLoadThenStore ==
    \A f \in Frames :
        f.prim = "exchange" /\ BodyOver(f) =>
            /\ f.tr[1] = "dmb" <=> LoadBarrierBefore(f.order)
            /\ f.tr[Len(f.tr)] = "dmb" <=> StoreBarrierAfter(f.order)

\* C8 as amended: an exchange issues a barrier before the read and a barrier
\* after the write exactly when the ordering is not relaxed, at every width;
\* these are the store's leading and the load's trailing barrier, and include
\* every barrier a load's leading and a store's trailing rule would issue.
C8_ExchangeBarriers ==
    \A f \in Frames :
        f.prim = "exchange" /\ BodyOver(f) =>
            /\ f.tr = Opt(f.order # "relaxed", "dmb") \o <<"rd", "wr">>
                      \o Opt(f.order # "relaxed", "dmb")
            /\ f.tr[1] = "dmb" <=> StoreBarrierBefore(f.order)
            /\ f.tr[Len(f.tr)] = "dmb" <=> LoadBarrierAfter(f.order)
            /\ LoadBarrierBefore(f.order) => f.tr[1] = "dmb"
            /\ StoreBarrierAfter(f.order) => f.tr[Len(f.tr)] = "dmb"

\* C8 witness: a consume exchange has issued a barrier on both sides, where a
\* consume load has no leading and a consume store no trailing barrier.
C8_Witness ==
    \E f \in Frames :
        /\ f.prim = "exchange" /\ f.order = "consume" /\ f.pc = "done"
        /\ f.tr = <<"dmb", "rd", "wr", "dmb">>
        /\ ~LoadBarrierBefore("consume") /\ ~StoreBarrierAfter("consume")

\* C9: with relaxed ordering no primitive of any width issues a barrier, the
\* guard-wrapped 8-byte load and store included: the raw access(es) only.
C9_RelaxedNoBarrier ==
    \A f \in Frames :
        f.prim \in Prims /\ f.order = "relaxed" =>
            /\ f.pc \notin {"dmb1", "dmb2"}
            /\ \A i \in 1..Len(f.tr) : f.tr[i] # "dmb"
            /\ BodyOver(f) =>
                 f.tr = CASE f.prim = "load" -> <<"rd">>
                          [] f.prim = "store" -> <<"wr">>
                          [] f.prim = "exchange" -> <<"rd", "wr">>

\* C9 witness: a relaxed 8-byte store of 0 over a location holding another
\* value has returned having issued its write only.
C9_Witness ==
    /\ width = 8 /\ Len(stack) = 1
    /\ Top.prim = "store" /\ Top.order = "relaxed" /\ Top.val = 0
    /\ Top.pc = "done" /\ Top.tr = <<"wr">> /\ Top.over = Word64(1)
    /\ mem = Word64(0)

\* C10: every 8-byte load, 8-byte store and every exchange performs its
\* read, its write and its barriers with interrupts disabled, whatever the
\* flag was on entry.
C10_AccessMasked ==
    \A f \in Frames :
        /\ f.prim = "exchange" \/ (f.prim \in {"load", "store"} /\ width = 8)
        /\ f.pc \in {"dmb1", "rd", "rd2", "wr", "wr2", "dmb2"}
        => primask = TRUE

\* C10 witness: a 1-byte exchange entered with interrupts enabled is about to
\* write, interrupts masked.
C10_Witness ==
    /\ width = 1 /\ stack # <<>>
    /\ Top.prim = "exchange" /\ Top.entry = FALSE /\ Top.pc = "wr"
    /\ primask = TRUE

\* C11: loads and stores of width 1, 2 and 4 are never guard-wrapped: they
\* never query, disable or enable interrupts, and the interrupt flag is what
\* it was at the call at every step they execute, for every ordering.
C11_NarrowUnguarded ==
    \A i \in 1..Len(stack) :
        stack[i].prim \in {"load", "store"} /\ width \in {1, 2, 4} =>
            /\ stack[i].pc \notin {"mrs", "cpsid", "cpsie"}
            /\ stack[i].cps = 0
            /\ i = Len(stack) => primask = stack[i].entry

\* C11 witness: a 2-byte seq_cst store called with interrupts enabled has
\* been preempted and resumed, and is at its trailing barrier with the flag
\* still clear.
C11_Witness ==
    /\ width = 2 /\ Len(stack) = 1
    /\ Top.prim = "store" /\ Top.order = "seq_cst" /\ Top.pc = "dmb2"
    /\ Top.entry = FALSE /\ Top.irqat = "other" /\ primask = FALSE

\* The activation has read the whole value
ReadOver(f) == f.pc \in {"dmb2", "cpsie", "ret", "done"}

\* C12: for every width and ordering, an exchange that no interrupt
\* intervenes in returns the value the location held immediately before the
\* call, and a load that follows it immediately returns the value exchanged
\* in.
C12_ExchangeThenLoad ==
    \A f \in Frames :
        /\ f.prim = "exchange" /\ f.irqat = "none"
             /\ (f.pc \in {"wr", "wr2"} \/ ReadOver(f))
             => f.ret = f.before
        /\ f.prim = "load" /\ f.pred[1] = "exchange" /\ f.irqat = "none"
             /\ ReadOver(f)
             => f.ret = Stored(f.pred[2])

\* C12 witness: a 4-byte seq_cst load right after an exchange that wrote 1
\* has returned 1.
C12_Witness ==
    /\ width = 4 /\ Len(stack) = 1
    /\ Top.prim = "load" /\ Top.order = "seq_cst" /\ Top.pc = "done"
    /\ Top.pred = <<"exchange", 1>> /\ Top.irqat = "none"
    /\ Top.ret = <<1, 0>>

\* C13: for every width and every pair of orderings, a load that immediately
\* follows a store of v, with no intervening interrupt, returns v.
C13_StoreThenLoad ==
    \A f \in Frames :
        f.prim = "load" /\ f.pred[1] = "store" /\ f.irqat = "none"
             /\ ReadOver(f)
            => f.ret = Stored(f.pred[2])

\* C13 witness: an 8-byte acquire load right after a store of a value other
\* than the one the location started with has returned both words of it.
C13_Witness ==
    /\ width = 8 /\ Len(stack) = 1
    /\ Top.prim = "load" /\ Top.order = "acquire" /\ Top.pc = "done"
    /\ Top.pred = <<"store", 1>> /\ Top.irqat = "none"
    /\ Top.ret = Word64(1)

\* C14: ordering monotonicity: for each primitive, a seq_cst request issues a
\* barrier at every position (before the access, after the access) at which
\* the acquire or the release request of the same primitive issues one.
C14_SeqCstMonotone ==
    \A f \in Frames :
        f.prim \in Prims /\ f.order = "seq_cst" /\ BodyOver(f) =>
            \A o \in {"acquire", "release"} :
                /\ BarrierBefore(f.prim, o) => f.tr[1] = "dmb"
                /\ BarrierAfter(f.prim, o) => f.tr[Len(f.tr)] = "dmb"

\* C14 witness: a seq_cst load has issued both barriers, where a release load
\* issues the leading and an acquire load only the trailing one.
C14_Witness ==
    \E f \in Frames :
        /\ f.prim = "load" /\ f.order = "seq_cst" /\ f.pc = "ret"
        /\ f.tr = <<"dmb", "rd", "dmb">>
        /\ BarrierBefore("load", "release") /\ ~BarrierBefore("load", "acquire")
        /\ BarrierAfter("load", "acquire")

\* ------------------------------------------------------------ progress
\* The core executes the next instruction of the running activation
Step ==
    \/ Mrs \/ Cpsid \/ DmbBefore \/ Read \/ ReadHigh \/ Write \/ WriteHigh
    \/ DmbAfter \/ Invoke \/ Cpsie \/ Return

\* An instruction of the activation at depth n of the stack
StepAt(n) == Len(stack) = n /\ Step

\* The deepest the stack gets: the thread's call, the calls nested in
\* critical_section actions, the handlers
MaxDepth == 1 + MaxNest + MaxIrq

\* The core never stops executing, and interrupts do not arrive without end:
\* an activation that is resumed again and again gets to execute.
LiveSpec ==
    Init /\ [][Next]_vars /\ \A n \in 1..MaxDepth : SF_vars(StepAt(n))

\* C15: every invocation eventually returns, also when handlers preempt it:
\* whenever an activation is running, the thread's call eventually returns,
\* which it does only after every handler and nested call above it has; and
\* whenever a guard has disabled interrupts they are eventually enabled again.
C15_Terminates ==
    /\ Running ~> (Len(stack) = 1 /\ Top.pc = "done")
    /\ (\E f \in Frames : f.cps = 1) ~> (primask = FALSE)

\* C15 witness: an 8-byte store that a handler preempted between its mask
\* query and its cpsid has returned, with interrupts enabled again.
C15_Witness ==
    /\ width = 8 /\ Len(stack) = 1
    /\ Top.prim = "store" /\ Top.pc = "done" /\ Top.irqat = "gap"
    /\ Top.cps = 2 /\ primask = FALSE

\* C16: a guard that a handler preempted between its mask query and its
\* cpsid uses a reading that is still right: when it resumes at the cpsid
\* the flag is as it read it, it runs its action with interrupts disabled,
\* and it returns with interrupts enabled.
C16_StaleReadingRight ==
    \A i \in 1..Len(stack) :
        stack[i].irqat = "gap" =>
            /\ stack[i].prev = TRUE
            /\ i = Len(stack) /\ stack[i].pc = "cpsid" => primask = FALSE
            /\ stack[i].pc \in {"dmb1", "rd", "rd2", "wr", "wr2", "dmb2",
                                "action", "inaction", "cpsie"}
                 => primask = TRUE
            /\ i = Len(stack) /\ Returning(stack[i]) => primask = FALSE

\* C16 witness: an exchange preempted between its query and its cpsid by a
\* handler that ran an exchange of its own is between its read and its write
\* with interrupts disabled, and reads what the handler wrote.
C16_Witness ==
    /\ Len(stack) = 1
    /\ Top.prim = "exchange" /\ Top.irqat = "gap" /\ Top.pc = "wr"
    /\ primask = TRUE /\ Top.entry = FALSE
    /\ Top.ret[1] = 1 /\ Top.val = 0

\* The barrier / access sequence of a primitive under an ordering, as a
\* function of these two alone
C17_Sequence(prim, order) ==
    CASE prim = "load" ->
           Opt(order \in {"seq_cst", "acq_rel", "release"}, "dmb")
           \o <<"rd">> \o Opt(order # "relaxed", "dmb")
      [] prim = "store" ->
           Opt(order # "relaxed", "dmb") \o <<"wr">>
           \o Opt(order \in {"seq_cst", "acq_rel", "acquire"}, "dmb")
      [] prim = "exchange" ->
           Opt(order # "relaxed", "dmb") \o <<"rd", "wr">>
           \o Opt(order # "relaxed", "dmb")

IsPrefix(s, t) == Len(s) <= Len(t) /\ SubSeq(t, 1, Len(s)) = s

Count(e, s) == Cardinality({i \in 1..Len(s) : s[i] = e})

\* C17: the sequence of barriers and accesses of an operation is determined
\* by the primitive and the ordering alone, whatever the width, the value,
\* the location's contents and the interrupt flag on entry: a completed
\* operation has issued the sequence of its primitive and ordering, two
\* operations in progress with the same primitive and ordering have issued
\* sequences one of which extends the other, a load or store performs one
\* access with at most one barrier on each side, an exchange one read
\* followed by one write.
C17_SequenceDetermined ==
    /\ \A f \in Frames :
          f.prim \in Prims /\ BodyOver(f) =>
              /\ f.tr = C17_Sequence(f.prim, f.order)
              /\ Count("rd", f.tr) = (IF f.prim = "store" THEN 0 ELSE 1)
              /\ Count("wr", f.tr) = (IF f.prim = "load" THEN 0 ELSE 1)
              /\ Count("dmb", f.tr) <= 2
              /\ \A i \in 1..(Len(f.tr) - 1) : f.tr[i] = "dmb" => f.tr[i + 1] # "dmb"
    /\ \A f, g \in Frames :
          f.prim = g.prim /\ f.order = g.order =>
              IsPrefix(f.tr, g.tr) \/ IsPrefix(g.tr, f.tr)

\* C17 witness: a handler's seq_cst store of one value, preempting a seq_cst
\* store of another value, has issued the sequence the preempted store has
\* issued in part.
C17_Witness ==
    /\ Len(stack) = 2
    /\ stack[1].prim = "store" /\ stack[1].order = "seq_cst"
    /\ Top.prim = "store" /\ Top.order = "seq_cst" /\ Top.pc = "ret"
    /\ Top.val # stack[1].val
    /\ stack[1].tr = <<"dmb", "wr">> /\ Top.tr = <<"dmb", "wr", "dmb">>

====
